---- MODULE Spec2Model ----
(***************************************************************************)
(* A model of wtree: the copy/link engine (copy.ts), the add and restore   *)
(* commands that drive it, the tiered configuration detection              *)
(* (detect/index.ts, config.ts, detect/recipes.ts), the choice of a source *)
(* worktree (git.ts) and the clean command (commands/clean.ts).            *)
(*                                                                         *)
(* Path strings are sequences of UTF-16 code units, so that the string     *)
(* sort and the startsWith test of deduplicatePaths are computed as the    *)
(* code computes them:  45 is "-", 47 is "/", 42 is "*", 97.. is "a"..     *)
(***************************************************************************)
EXTENDS Integers, Sequences, FiniteSets, TLC

VARIABLES
    dPc,        \* deduplicatePaths harness: "in" before the call, "out" after
    dIn,        \* the paths argument of deduplicatePaths
    dOut,       \* deduplicatePaths(dIn)
    dOut2,      \* deduplicatePaths(deduplicatePaths(dIn))
    cmd,        \* what runs: "copy" (copyArtifacts called directly), "add",
                \* "restore" (--from optional), "restoreFrom" (--from required)
    args,       \* the parsed arguments of add / restore
    repo,       \* what git answers to the checks that open a command
    platform,   \* process.platform
    pc,         \* position of the command
    detection,  \* what detectConfig(sourceWorktree.path) gave the command
    worktree,   \* add: the git worktree has been created
    opts,       \* copyArtifacts: options.useReflink !== false, onProgress given
    src,        \* the tree under sourceRoot
    dest,       \* the tree under destRoot
    dest0,      \* the tree under destRoot when copyArtifacts was entered
    reflinkSupported, \* copy.ts module variable: "unknown", "yes", "no"
    toCopy,     \* copyArtifacts: the de-duplicated matches
    idx,        \* copyArtifacts: the loop index, 1-based
    status,     \* per scheduled item: "pending", "copied", "skipped", "failed"
    destExisted,\* per scheduled item: exists(destPath) when the item was reached
    copied,     \* copyArtifacts: the copied list
    fsLog,      \* the file-system commands run by copyArtifacts
    progress,   \* the calls of onProgress
    post,       \* the post_restore process
    err,        \* the error the command failed with
    tPc,        \* detection harness: "in" before the call, "out" after
    root,       \* detectConfig: what the project root holds
    tOut,       \* detectConfig(root)
    mIn,        \* mergeRecipeConfigs: the recipes argument
    mOut,       \* mergeRecipeConfigs(mIn)
    gIn,        \* inferFromGitignore: .gitignore of the root, <<>> or <<lines>>
    gOut,       \* inferFromGitignore(gIn)
    yIn,        \* parseConfig: what .wtree.yaml holds
    pOut,       \* parseConfig(yIn)
    registry,   \* the RECIPES array of detect/recipes.ts as it is in memory
    sPc,        \* findBestSourceWorktree harness: "in" before the call, "out" after
    listing,    \* what "git worktree list --porcelain" gives: <<>> if git fails, else <<worktrees>>
    current,    \* the place in the listing of the worktree of cwd, 0 if there is none
    sOut,       \* the outcome of findBestSourceWorktree
    kPc,        \* position of clean: "idle", "start", "scanned", "pruned", "done", "failed"
    dryRun,     \* clean: args.flags.dryRun ?? false
    force,      \* clean: args.flags.force ?? false
    artifacts,  \* clean: what stat and readdir find at each artifact path
    staleRefs,  \* how many worktree references of the repository are stale
    entry,      \* artifacts and staleRefs as they were when clean started
    itemsToClean,    \* clean: the paths pushed on itemsToClean
    prunedWorktrees, \* clean: prunedWorktrees
    cleanOut    \* the CleanResult: summary.total, summary.cleaned, summary.pruned

dedupVars == <<dPc, dIn, dOut, dOut2>>
copyVars == <<cmd, args, repo, platform, pc, detection, worktree, opts, src, dest, dest0,
              reflinkSupported, toCopy, idx, status, destExisted, copied, fsLog,
              progress, post, err>>
detectVars == <<tPc, root, tOut, mIn, mOut, gIn, gOut, yIn, pOut, registry>>
sourceVars == <<sPc, listing, current, sOut>>
cleanVars == <<kPc, dryRun, force, artifacts, staleRefs, entry, itemsToClean,
               prunedWorktrees, cleanOut>>
vars == <<dedupVars, copyVars, detectVars, sourceVars, cleanVars>>

----------------------------------------------------------------------------
(* Bounds of the model *)

\* longest list of matches handed to deduplicatePaths
MaxMatches == 3

----------------------------------------------------------------------------
(* Strings *)

\* s < t in the order of Array.prototype.sort() without a comparator:
\* code unit by code unit, a proper prefix first
LexLess(s, t) ==
    \E k \in 1..Len(t) :
        /\ k <= Len(s) + 1
        /\ \A j \in 1..(k - 1) : s[j] = t[j]
        /\ (k = Len(s) + 1 \/ s[k] < t[k])

\* String.prototype.startsWith
StartsWith(s, prefix) ==
    /\ Len(prefix) <= Len(s)
    /\ SubSeq(s, 1, Len(prefix)) = prefix

\* the set of elements of a list
Range(s) == {s[k] : k \in DOMAIN s}

\* all lists over S of length at most n
SeqsUpTo(S, n) == UNION {[1..k -> S] : k \in 0..n}

----------------------------------------------------------------------------
(* copy.ts: deduplicatePaths *)

RECURSIVE SortedInsert(_, _)
SortedInsert(x, s) ==
    IF s = <<>> THEN <<x>>
    ELSE IF LexLess(x, Head(s)) THEN <<x>> \o s
    ELSE <<Head(s)>> \o SortedInsert(x, Tail(s))

\* mutation: the matches are left in the order the patterns gave them
SortPathsNone(paths) == paths

\* [...paths].sort()
RECURSIVE SortPaths(_)
SortPaths(paths) ==
    IF paths = <<>> THEN <<>>
    ELSE SortedInsert(paths[Len(paths)], SortPaths(SubSeq(paths, 1, Len(paths) - 1)))

\* mutation: the prefix test without the path separator
IsChildNoSeparator(path, existing) ==
    StartsWith(path, existing) \/ path = existing

\* mutation: only an equal path counts as already covered
IsChildEqualOnly(path, existing) ==
    path = existing

\* path.startsWith(existing + "/") || path === existing
IsChild(path, existing) ==
    StartsWith(path, existing \o <<47>>) \/ path = existing

\* the loop over sorted, from index k on, with the paths kept so far
RECURSIVE DedupWalk(_, _, _)
DedupWalk(sorted, k, result) ==
    IF k > Len(sorted) THEN result
    ELSE IF \E e \in Range(result) : IsChild(sorted[k], e)
         THEN DedupWalk(sorted, k + 1, result)
         ELSE DedupWalk(sorted, k + 1, Append(result, sorted[k]))

\* mutation: the loop starts one element late
DeduplicatePathsSkipFirst(paths) == DedupWalk(SortPaths(paths), 2, <<>>)

DeduplicatePaths(paths) == DedupWalk(SortPaths(paths), 1, <<>>)

----------------------------------------------------------------------------
(* The trees under sourceRoot and destRoot *)

\* the relative paths of the model: "a", "a/b", "a-b"
CopyPaths == { <<97>>, <<97, 47, 98>>, <<97, 45, 98>> }

\* the cache patterns of the model: the literal paths and the glob "**/b"
CopyPatterns == CopyPaths \cup { <<42, 42, 47, 98>> }

StrictAncestor(a, b) == a /= b /\ StartsWith(b, a \o <<47>>)

HasChildren(p) == \E q \in CopyPaths : StrictAncestor(p, q)

\* a child lives in a directory only; a path nothing of the model lies under
\* is a leaf, "file" standing for any existing leaf
WellFormed(fs) ==
    \A p \in CopyPaths :
        /\ fs[p] = "dir" => HasChildren(p)
        /\ fs[p] /= "none" => \A q \in CopyPaths : StrictAncestor(q, p) => fs[q] = "dir"

\* a source entry may be a symbolic link to nothing: the directory scan lists
\* it and stat() fails on it
SrcTrees ==
    {fs \in [CopyPaths -> {"none", "file", "dir", "dangling"}] :
        WellFormed(fs) /\ \A p \in CopyPaths : fs[p] = "dangling" => ~HasChildren(p)}

DestTrees == {fs \in [CopyPaths -> {"none", "file", "dir"}] : WellFormed(fs)}

EmptyTree == [p \in CopyPaths |-> "none"]

\* copy.ts exists(): stat() succeeds
Exists(fs, p) == fs[p] \in {"file", "dir", "newfile", "newdir"}

EndsWith(s, suffix) ==
    /\ Len(suffix) <= Len(s)
    /\ SubSeq(s, Len(s) - Len(suffix) + 1, Len(s)) = suffix

\* Glob.match for the two pattern shapes of the model: a literal path, and
\* "**/name" (name at any depth, the root included)
GlobMatches(pattern, path) ==
    IF StartsWith(pattern, <<42, 42, 47>>)
    THEN LET name == SubSeq(pattern, 4, Len(pattern))
         IN  path = name \/ EndsWith(path, <<47>> \o name)
    ELSE path = pattern

RECURSIVE SetToSeq(_)
SetToSeq(S) ==
    IF S = {} THEN <<>>
    ELSE LET x == CHOOSE y \in S : TRUE IN <<x>> \o SetToSeq(S \ {x})

\* copy.ts expandGlob: the entries of the scan of root that match
ExpandGlob(pattern, fs) ==
    SetToSeq({p \in CopyPaths : fs[p] /= "none" /\ GlobMatches(pattern, p)})

\* the loop "for (const pattern of patterns) allMatches.push(...matches)"
RECURSIVE AllMatches(_, _)
AllMatches(patterns, fs) ==
    IF patterns = <<>> THEN <<>>
    ELSE ExpandGlob(Head(patterns), fs) \o AllMatches(Tail(patterns), fs)

\* mkdir(dirname(dest), {recursive: true}) fails when an ancestor is a file
MkdirOk(fs, p) ==
    \A q \in CopyPaths : StrictAncestor(q, p) => fs[q] \notin {"file", "newfile"}

Mkdir(fs, p) ==
    [q \in CopyPaths |->
        IF StrictAncestor(q, p) /\ fs[q] = "none" THEN "newdir" ELSE fs[q]]

NewKind(k) ==
    CASE k = "file" -> "newfile"
      [] k = "dir" -> "newdir"
      [] k = "dangling" -> "newlink"
      [] OTHER -> "none"

\* a successful cp of the subtree at p (cp -c, cp -al, cp -Rl)
CopyTree(d, s, p) ==
    [q \in CopyPaths |->
        IF q = p \/ StrictAncestor(p, q) THEN NewKind(s[q]) ELSE d[q]]

----------------------------------------------------------------------------
(* copy.ts: isReflinkSupported, reflinkCopy, hardlinkCopy, one loop item *)

\* isReflinkSupported: false off macOS, else the cached answer, else the probe
ReflinkAvailable(plat, cache, probe) ==
    IF plat /= "darwin" THEN FALSE
    ELSE IF cache /= "unknown" THEN cache = "yes"
    ELSE probe

CacheAfter(plat, cache, probe) ==
    IF plat /= "darwin" \/ cache /= "unknown" THEN cache
    ELSE IF probe THEN "yes" ELSE "no"

\* mutation: an existing destination does not stop the copy
DestBlocksNever(d, p) == FALSE

\* "if (await exists(destPath)) continue"
DestBlocks(d, p) == Exists(d, p)

\* mutation: the catch rethrows what is not a WtreeError
CaughtOnlyWtreeError(kind) == kind = "WtreeError"

\* the catch block of the loop: whatever was thrown, the loop goes on
Caught(kind) == TRUE

\* mutation: a clone that fails is the failure of the item
TryCopyCloneOnly(p, useReflink, plat, cache, d, s, probe, cloneOk, linkOk) ==
    IF ~MkdirOk(d, p)
    THEN [dest |-> d, cache |-> cache, log |-> {<<"mkdir", p>>}, outcome |-> "Error"]
    ELSE LET d1 == Mkdir(d, p)
             tryClone == useReflink /\ ReflinkAvailable(plat, cache, probe)
             cache1 == IF useReflink THEN CacheAfter(plat, cache, probe) ELSE cache
             probed == IF cache1 /= cache THEN {<<"probe", p>>} ELSE {}
         IN  IF tryClone
             THEN [dest |-> IF cloneOk THEN CopyTree(d1, s, p) ELSE d1, cache |-> cache1,
                   log |-> {<<"mkdir", p>>, <<"clone", p>>} \cup probed,
                   outcome |-> IF cloneOk THEN "ok" ELSE "WtreeError"]
             ELSE [dest |-> IF linkOk THEN CopyTree(d1, s, p) ELSE d1, cache |-> cache1,
                   log |-> {<<"mkdir", p>>, <<"link", p>>} \cup probed,
                   outcome |-> IF linkOk THEN "ok" ELSE "WtreeError"]

\* mutation: the probe files of isReflinkSupported are made next to the source
WriteRootProbeInSource(op) == IF op = "probe" THEN "sourceWorktree.path" ELSE "targetPath"

\* the root under which a command of the log writes: mkdir makes
\* dirname(destPath), the probe makes its two files in dirname(dest), and
\* cp -c, cp -Rl and cp -al write dest
WriteRoot(op) ==
    CASE op = "mkdir" -> "targetPath"
      [] op = "probe" -> "targetPath"
      [] op = "clone" -> "targetPath"
      [] op = "link" -> "targetPath"

\* the try block of the loop for item p, given how the probe, the clone and
\* the hardlink cp turn out: the tree, the cache, the commands run, the outcome
TryCopy(p, useReflink, plat, cache, d, s, probe, cloneOk, linkOk) ==
    IF ~MkdirOk(d, p)
    THEN [dest |-> d, cache |-> cache, log |-> {<<"mkdir", p>>}, outcome |-> "Error"]
    ELSE LET d1 == Mkdir(d, p)
             tryClone == useReflink /\ ReflinkAvailable(plat, cache, probe)
             cache1 == IF useReflink THEN CacheAfter(plat, cache, probe) ELSE cache
             probed == IF cache1 /= cache THEN {<<"probe", p>>} ELSE {}
             cloned == IF tryClone THEN {<<"clone", p>>} ELSE {}
         IN  IF tryClone /\ cloneOk
             THEN [dest |-> CopyTree(d1, s, p), cache |-> cache1,
                   log |-> {<<"mkdir", p>>} \cup probed \cup cloned, outcome |-> "ok"]
             ELSE IF linkOk
             THEN [dest |-> CopyTree(d1, s, p), cache |-> cache1,
                   log |-> {<<"mkdir", p>>, <<"link", p>>} \cup probed \cup cloned,
                   outcome |-> "ok"]
             ELSE [dest |-> d1, cache |-> cache1,
                   log |-> {<<"mkdir", p>>, <<"link", p>>} \cup probed \cup cloned,
                   outcome |-> "WtreeError"]

----------------------------------------------------------------------------
(* detect/recipes.ts: the registry *)

Undefined == "undefined"

\* mutation: the built-in recipes define a post_restore command
RecipeWithPostRestore(name, detect, cache) ==
    [name |-> name, detect |-> detect,
     config |-> [cache |-> cache, post_restore |-> "install", recipe |-> "undefined"]]

\* a recipe of the registry: name, detect and config.cache; no recipe of the
\* registry has a config.post_restore
Recipe(name, detect, cache) ==
    [name |-> name, detect |-> detect,
     config |-> [cache |-> cache, post_restore |-> Undefined, recipe |-> Undefined]]

\* mutation: the package managers are listed before the monorepo tools
RecipesPackageManagersFirst ==
    << Recipe("pnpm", <<"pnpm-lock.yaml">>, <<"node_modules">>),
       Recipe("npm", <<"package-lock.json">>, <<"node_modules">>),
       Recipe("yarn", <<"yarn.lock">>, <<"node_modules", ".yarn/cache">>),
       Recipe("turborepo", <<"turbo.json">>, <<"node_modules", ".turbo", "**/node_modules">>),
       Recipe("nx", <<"nx.json">>, <<"node_modules", ".nx/cache", "**/node_modules">>),
       Recipe("rush", <<"rush.json">>, <<"common/temp/node_modules", ".rush/temp">>),
       Recipe("pnpm-workspaces", <<"pnpm-workspace.yaml">>, <<"node_modules", "**/node_modules">>),
       Recipe("bun", <<"bun.lock", "bun.lockb">>, <<"node_modules">>),
       Recipe("python-uv", <<"uv.lock">>, <<".venv">>),
       Recipe("python-pip", <<"requirements.txt">>, <<".venv">>),
       Recipe("rust", <<"Cargo.lock">>, <<"target">>),
       Recipe("go", <<"go.sum">>, <<"vendor">>) >>

RECIPES ==
    << Recipe("turborepo", <<"turbo.json">>, <<"node_modules", ".turbo", "**/node_modules">>),
       Recipe("nx", <<"nx.json">>, <<"node_modules", ".nx/cache", "**/node_modules">>),
       Recipe("rush", <<"rush.json">>, <<"common/temp/node_modules", ".rush/temp">>),
       Recipe("pnpm-workspaces", <<"pnpm-workspace.yaml">>, <<"node_modules", "**/node_modules">>),
       Recipe("pnpm", <<"pnpm-lock.yaml">>, <<"node_modules">>),
       Recipe("npm", <<"package-lock.json">>, <<"node_modules">>),
       Recipe("yarn", <<"yarn.lock">>, <<"node_modules", ".yarn/cache">>),
       Recipe("bun", <<"bun.lock", "bun.lockb">>, <<"node_modules">>),
       Recipe("python-uv", <<"uv.lock">>, <<".venv">>),
       Recipe("python-pip", <<"requirements.txt">>, <<".venv">>),
       Recipe("rust", <<"Cargo.lock">>, <<"target">>),
       Recipe("go", <<"go.sum">>, <<"vendor">>) >>

\* getRecipeByName: RECIPES.find((r) => r.name === name), <<>> for undefined
GetRecipeByName(name) ==
    IF \E k \in DOMAIN RECIPES : RECIPES[k].name = name
    THEN << RECIPES[CHOOSE k \in DOMAIN RECIPES :
                /\ RECIPES[k].name = name
                /\ \A j \in 1..(k - 1) : RECIPES[j].name /= name] >>
    ELSE <<>>

\* mutation: no Set, every occurrence is kept
UniqueKeepsAll(list) == list

\* [...new Set(list)]: the first occurrence of each element, in order
RECURSIVE Unique(_)
Unique(list) ==
    IF list = <<>> THEN <<>>
    ELSE LET before == Unique(SubSeq(list, 1, Len(list) - 1))
             last == list[Len(list)]
         IN  IF \E k \in DOMAIN before : before[k] = last
             THEN before ELSE Append(before, last)

RECURSIVE Flatten(_)
Flatten(lists) ==
    IF lists = <<>> THEN <<>> ELSE Head(lists) \o Flatten(Tail(lists))

----------------------------------------------------------------------------
(* config.ts: parseConfig *)

\* What .wtree.yaml holds.  kind: "absent"; "unreadable" (readFile throws);
\* "invalid" (yaml.load throws); "null" (an empty document); "scalar" (a
\* string or number document); "list" (a sequence document); "map".
\* For a map: extends is a string or Undefined; cacheType is "absent",
\* "array", "truthy" (a non-array such as the string node_modules) or "falsy"
\* (a non-array such as false, 0 or the empty string); prType is "absent",
\* "string" or "other" (a list, a number, null).
Yaml(kind, extends, cacheType, cacheItems, prType, prValue) ==
    [kind |-> kind, extends |-> extends, cacheType |-> cacheType,
     cacheItems |-> cacheItems, prType |-> prType, prValue |-> prValue]

NoYaml == Yaml("absent", Undefined, "absent", <<>>, "absent", "")

ConfigOf(cache, postRestore, recipe) ==
    [cache |-> cache, post_restore |-> postRestore, recipe |-> recipe]

ParseError == [ok |-> FALSE, code |-> "CONFIG_ERROR", config |-> ConfigOf(<<>>, Undefined, Undefined)]

\* mutation: extends is not looked at
TruthyNever(str) == FALSE

\* "if (raw.extends)": a non-empty string is truthy
Truthy(str) == str /= Undefined /\ str /= ""

\* "if (raw.cache)": the merge and its Array.isArray check are entered for a
\* truthy value only
CacheGiven(y) == y.cacheType \in {"array", "truthy"}

ParseConfig(y) ==
    IF y.kind \in {"unreadable", "invalid", "null", "scalar"} THEN ParseError
    ELSE
    LET isMap == y.kind = "map"
        extends == IF isMap THEN y.extends ELSE Undefined
        found == GetRecipeByName(extends)
        base == IF Truthy(extends) /\ found /= <<>>
                THEN [found[1].config EXCEPT !.recipe = found[1].name]
                ELSE ConfigOf(<<>>, Undefined, Undefined)
        merged == IF isMap /\ CacheGiven(y)
                  THEN [base EXCEPT !.cache = Unique(base.cache \o y.cacheItems)]
                  ELSE base
    IN  IF Truthy(extends) /\ found = <<>> THEN ParseError
        ELSE IF isMap /\ CacheGiven(y) /\ y.cacheType /= "array" THEN ParseError
        ELSE IF isMap /\ y.prType = "other" THEN ParseError
        ELSE IF isMap /\ y.prType = "string"
        THEN [ok |-> TRUE, code |-> "", config |-> [merged EXCEPT !.post_restore = y.prValue]]
        ELSE [ok |-> TRUE, code |-> "", config |-> merged]

\* The registry after parseConfig(y).  parseConfig writes only to the
\* properties of config, which is a fresh object ("{ cache: [] }" or the
\* spread "{ ...recipe.config, recipe: recipe.name }"), and config.cache is
\* assigned a new array: no object of the registry is written.
RegistryAfterParse(reg, y) == reg

----------------------------------------------------------------------------
(* detect/gitignore.ts *)

\* A line of .gitignore is a sequence of symbols: "#", "!", "/", " " and
\* words without any of these.

GITIGNORE_HINTS ==
    [key \in { <<"node_modules">>, <<"node_modules", "/">>, <<".venv">>, <<".venv", "/">>,
               <<"venv">>, <<"venv", "/">>, <<"__pycache__">>, <<".pytest_cache">>,
               <<"target">>, <<"target", "/">>, <<"vendor">>, <<"vendor", "/">>,
               <<"dist">>, <<"dist", "/">>, <<"build">>, <<"build", "/">>,
               <<"out">>, <<"out", "/">>, <<".turbo">>, <<".nx">>, <<".next">>,
               <<".nuxt">>, <<".yarn", "/", "cache">>, <<".pnp.*">>} |->
        CASE key \in { <<"__pycache__">>, <<".pytest_cache">>, <<".pnp.*">> } -> <<>>
          [] key = <<".nx">> -> <<".nx/cache">>
          [] key = <<".yarn", "/", "cache">> -> <<".yarn/cache">>
          [] OTHER -> <<key[1]>>]

\* String.prototype.trim
RECURSIVE TrimLeft(_)
TrimLeft(line) ==
    IF line /= <<>> /\ Head(line) = " " THEN TrimLeft(Tail(line)) ELSE line

RECURSIVE TrimRight(_)
TrimRight(line) ==
    IF line /= <<>> /\ line[Len(line)] = " "
    THEN TrimRight(SubSeq(line, 1, Len(line) - 1)) ELSE line

\* mutation: the line is used as read
TrimNone(line) == line

Trim(line) == TrimRight(TrimLeft(line))

\* parseGitignore: comments, empty lines and negations are skipped, one
\* trailing "/" is removed
RECURSIVE ParseGitignore(_)
ParseGitignore(lines) ==
    IF lines = <<>> THEN <<>>
    ELSE LET trimmed == Trim(Head(lines))
             rest == ParseGitignore(Tail(lines))
         IN  IF trimmed = <<>> \/ trimmed[1] = "#" \/ trimmed[1] = "!" THEN rest
             ELSE IF trimmed[Len(trimmed)] = "/"
             THEN <<SubSeq(trimmed, 1, Len(trimmed) - 1)>> \o rest
             ELSE <<trimmed>> \o rest

\* GITIGNORE_HINTS is an object literal: a lookup of a text that is no key of
\* its own but a property name of Object.prototype gives that property
InheritedKeys == { <<"constructor">>, <<"toString">>, <<"__proto__">> }

RECURSIVE HintTargets(_)
HintTargets(patterns) ==
    IF patterns = <<>> THEN <<>>
    ELSE (IF Head(patterns) \in DOMAIN GITIGNORE_HINTS
          THEN GITIGNORE_HINTS[Head(patterns)] ELSE <<>>) \o HintTargets(Tail(patterns))

\* "for (const p of hint)" on an inherited property, which is truthy and not
\* iterable, throws a TypeError
InferThrows(gi) ==
    gi /= <<>> /\ \E k \in DOMAIN ParseGitignore(gi[1]) : ParseGitignore(gi[1])[k] \in InheritedKeys

\* mutation: no "cachePatterns.size === 0" check
InferFromGitignoreEmptyConfig(gi) ==
    IF gi = <<>> THEN <<>>
    ELSE << ConfigOf(Unique(HintTargets(ParseGitignore(gi[1]))), Undefined, Undefined) >>

\* inferFromGitignore where it returns: <<>> for null; gi is <<>> when
\* .gitignore cannot be read, else <<lines>>
InferFromGitignore(gi) ==
    IF gi = <<>> THEN <<>>
    ELSE LET cachePatterns == Unique(HintTargets(ParseGitignore(gi[1])))
         IN  IF cachePatterns = <<>> THEN <<>>
             ELSE << ConfigOf(cachePatterns, Undefined, Undefined) >>

\* the outcome of a call of inferFromGitignore
InferResult(gi) ==
    IF InferThrows(gi) THEN [status |-> "TypeError", config |-> <<>>]
    ELSE [status |-> "ok", config |-> InferFromGitignore(gi)]

----------------------------------------------------------------------------
(* detect/index.ts: mergeRecipeConfigs, detectConfig *)

\* mutation: the merged configuration is built on the first recipe's
MergeRecipeConfigsKeepFirst(recipes) ==
    [recipes[1].config EXCEPT
        !.cache = Unique(Flatten([k \in DOMAIN recipes |-> recipes[k].config.cache]))]

MergeRecipeConfigs(recipes) ==
    ConfigOf(Unique(Flatten([k \in DOMAIN recipes |-> recipes[k].config.cache])),
             Undefined, Undefined)

\* mutation: the loop over recipe.detect stops at the first file found
DetectedOfFirstOnly(detect, files) ==
    IF \E k \in DOMAIN detect : detect[k] \in files
    THEN << detect[CHOOSE k \in DOMAIN detect :
                     /\ detect[k] \in files
                     /\ \A j \in 1..(k - 1) : detect[j] \notin files] >>
    ELSE <<>>

\* the files of recipe.detect found in the root, in the order of the list
RECURSIVE DetectedOf(_, _)
DetectedOf(detect, files) ==
    IF detect = <<>> THEN <<>>
    ELSE (IF Head(detect) \in files THEN <<Head(detect)>> ELSE <<>>)
         \o DetectedOf(Tail(detect), files)

\* mutation: a matched recipe is put in front of the ones matched before it
RECURSIVE MatchFromUnshift(_, _)
MatchFromUnshift(k, files) ==
    IF k > Len(RECIPES) THEN [recipes |-> <<>>, files |-> <<>>]
    ELSE LET found == DetectedOf(RECIPES[k].detect, files)
             rest == MatchFromUnshift(k + 1, files)
         IN  IF found /= <<>>
             THEN [recipes |-> rest.recipes \o <<RECIPES[k]>>, files |-> rest.files \o found]
             ELSE rest

\* the loop over RECIPES from index k: the matched recipes and their files
RECURSIVE MatchFrom(_, _)
MatchFrom(k, files) ==
    IF k > Len(RECIPES) THEN [recipes |-> <<>>, files |-> <<>>]
    ELSE LET found == DetectedOf(RECIPES[k].detect, files)
             rest == MatchFrom(k + 1, files)
         IN  IF found /= <<>>
             THEN [recipes |-> <<RECIPES[k]>> \o rest.recipes, files |-> found \o rest.files]
             ELSE rest

DetectionResult(method, config, recipe, recipes, detectedFiles) ==
    [status |-> "ok", code |-> "", method |-> method, config |-> config,
     recipe |-> recipe, recipes |-> recipes, detectedFiles |-> detectedFiles]

DetectionError(code) ==
    [status |-> "error", code |-> code, method |-> "", config |-> <<>>,
     recipe |-> Undefined, recipes |-> <<>>, detectedFiles |-> <<>>]

\* mutation: the explicit file is looked at only when no recipe matches
ExplicitAppliesAfterRecipes(r) ==
    r.yaml.kind /= "absent" /\ MatchFrom(1, r.files).recipes = <<>>

\* "if (await fileExists(configPath))"
ExplicitApplies(r) == r.yaml.kind /= "absent"

\* mutation: the patterns inferred from .gitignore are added to a recipe's
DetectConfigWithGitignore(r) ==
    IF ExplicitApplies(r)
    THEN LET parsed == ParseConfig(r.yaml)
         IN  IF parsed.ok
             THEN DetectionResult("explicit", <<parsed.config>>, parsed.config.recipe, <<>>, <<>>)
             ELSE DetectionError(parsed.code)
    ELSE LET m == MatchFrom(1, r.files)
             names == [k \in DOMAIN m.recipes |-> m.recipes[k].name]
             gitignoreConfig == InferFromGitignore(r.gitignore)
             extra == IF gitignoreConfig = <<>> THEN <<>> ELSE gitignoreConfig[1].cache
         IN  IF InferThrows(r.gitignore) THEN DetectionError("TypeError")
             ELSE IF Len(m.recipes) = 1
             THEN DetectionResult("recipe",
                      << [m.recipes[1].config EXCEPT !.recipe = m.recipes[1].name,
                                                     !.cache = Unique(@ \o extra)] >>,
                      m.recipes[1].name, <<>>, <<m.files>>)
             ELSE IF Len(m.recipes) > 1
             THEN DetectionResult("mixed",
                      << [MergeRecipeConfigs(m.recipes) EXCEPT !.cache = Unique(@ \o extra)] >>,
                      m.recipes[1].name, <<names>>, <<m.files>>)
             ELSE IF gitignoreConfig /= <<>>
             THEN DetectionResult("gitignore", gitignoreConfig, Undefined, <<>>, <<>>)
             ELSE DetectionResult("none", <<>>, Undefined, <<>>, <<>>)

\* config, recipes and detectedFiles are <<>> when null or unset, else <<value>>
DetectConfig(r) ==
    IF ExplicitApplies(r)
    THEN LET parsed == ParseConfig(r.yaml)
         IN  IF parsed.ok
             THEN DetectionResult("explicit", <<parsed.config>>, parsed.config.recipe, <<>>, <<>>)
             ELSE DetectionError(parsed.code)
    ELSE LET m == MatchFrom(1, r.files)
             names == [k \in DOMAIN m.recipes |-> m.recipes[k].name]
         IN  IF Len(m.recipes) = 1
             THEN DetectionResult("recipe",
                      << [m.recipes[1].config EXCEPT !.recipe = m.recipes[1].name] >>,
                      m.recipes[1].name, <<>>, <<m.files>>)
             ELSE IF Len(m.recipes) > 1
             THEN DetectionResult("mixed", << MergeRecipeConfigs(m.recipes) >>,
                      m.recipes[1].name, <<names>>, <<m.files>>)
             ELSE LET gitignoreConfig == InferFromGitignore(r.gitignore)
                  IN  IF InferThrows(r.gitignore) THEN DetectionError("TypeError")
                      ELSE IF gitignoreConfig /= <<>>
                      THEN DetectionResult("gitignore", gitignoreConfig, Undefined, <<>>, <<>>)
                      ELSE DetectionResult("none", <<>>, Undefined, <<>>, <<>>)

----------------------------------------------------------------------------
(* detectConfig on every project root, mergeRecipeConfigs on every list *)

\* most marker files in a root
MaxMarkers == 2

\* most lines in .gitignore
MaxGitLines == 1

\* longest list handed to mergeRecipeConfigs
MaxMerge == 2

\* most lines in the .gitignore handed to inferFromGitignore
MaxInferLines == 3

MarkerFiles == UNION {Range(RECIPES[k].detect) : k \in DOMAIN RECIPES}

YamlFiles ==
    { Yaml(k, Undefined, "absent", <<>>, "absent", "") :
        k \in {"unreadable", "invalid", "null", "scalar", "list"} }
    \cup
    { Yaml("map", e, c[1], c[2], pr[1], pr[2]) :
        e \in {Undefined, "yarn", "unknown-recipe"},
        c \in { <<"absent", <<>> >>, <<"array", <<"dist">> >>,
                <<"array", <<"node_modules", "dist", "dist">> >>,
                <<"truthy", <<>> >>, <<"falsy", <<>> >> },
        pr \in { <<"absent", "">>, <<"string", "npm ci">>, <<"other", "">> } }

GitLines ==
    { <<"node_modules">>, <<" ", "dist", "/">>, <<"__pycache__">>, <<"#", "dist">>,
      <<"!", "dist">>, <<"*.log">>, <<"constructor">> }

\* the Supported Stacks table of README.md: stack, detected by, cached artifacts
ReadmeStacks ==
    { <<"pnpm", {"pnpm-lock.yaml"}, <<"node_modules">> >>,
      <<"pnpm-workspaces", {"pnpm-workspace.yaml"}, <<"node_modules", "**/node_modules">> >>,
      <<"npm", {"package-lock.json"}, <<"node_modules">> >>,
      <<"yarn", {"yarn.lock"}, <<"node_modules", ".yarn/cache">> >>,
      <<"bun", {"bun.lock", "bun.lockb"}, <<"node_modules">> >>,
      <<"turborepo", {"turbo.json"}, <<"node_modules", ".turbo", "**/node_modules">> >>,
      <<"nx", {"nx.json"}, <<"node_modules", ".nx/cache", "**/node_modules">> >>,
      <<"rush", {"rush.json"},
        <<"common/temp/node_modules", ".rush/temp", "common/temp/build-cache">> >>,
      <<"lerna", {"lerna.json"}, <<"node_modules", "**/node_modules">> >>,
      <<"python-uv", {"uv.lock"}, <<".venv">> >>,
      <<"poetry", {"poetry.lock"}, <<".venv">> >>,
      <<"pdm", {"pdm.lock"}, <<".venv", "__pypackages__">> >>,
      <<"python-pip", {"requirements.txt"}, <<".venv">> >>,
      <<"rust", {"Cargo.lock"}, <<"target">> >>,
      <<"go", {"go.sum"}, <<"vendor">> >> }

\* the files a root may hold: the detection files of the registry and of the
\* README table
RootFiles == MarkerFiles \cup UNION {s[2] : s \in ReadmeStacks}

\* the lines of the .gitignore handed to inferFromGitignore
InferLines ==
    GitLines \cup { <<"dist">>, <<".nx">>, <<".turbo", "/">>, <<" ">>, <<"venv", " ">> }

\* <<>>: .gitignore cannot be read
GitignoreInputs == {<<>>} \cup {<<lines>> : lines \in SeqsUpTo(InferLines, MaxInferLines)}

\* .gitignore of a root: <<>> when it cannot be read, else <<lines>>
RootGitignores == {<<>>} \cup {<<lines>> : lines \in SeqsUpTo(GitLines, MaxGitLines)}

Roots ==
    { [yaml |-> y, files |-> f, gitignore |-> g] :
        y \in YamlFiles \cup {NoYaml},
        f \in {S \in SUBSET RootFiles : Cardinality(S) <= MaxMarkers},
        g \in RootGitignores }

NoRoot == [yaml |-> NoYaml, files |-> {}, gitignore |-> <<>>]

\* the recipe table of docs/ARCHITECTURE.md, whose recipes define post_restore
DocumentedRecipes ==
    { [name |-> "pnpm", detect |-> <<"pnpm-lock.yaml">>,
       config |-> ConfigOf(<<"node_modules">>,
                           "pnpm install --prefer-offline --frozen-lockfile", Undefined)],
      [name |-> "turborepo", detect |-> <<"turbo.json">>,
       config |-> ConfigOf(<<"node_modules", ".turbo", "**/node_modules">>,
                           "pnpm install --prefer-offline", Undefined)] }

MergeInputs ==
    {l \in SeqsUpTo(DocumentedRecipes \cup {RECIPES[6], RECIPES[11]}, MaxMerge) : Len(l) >= 2}

DedupIdle ==
    /\ dPc = "idle"
    /\ dIn = <<>>
    /\ dOut = <<>>
    /\ dOut2 = <<>>

NoResult == DetectionResult("", <<>>, Undefined, <<>>, <<>>)

DetectIdle ==
    /\ tPc = "idle"
    /\ root = NoRoot
    /\ tOut = NoResult
    /\ mIn = <<>>
    /\ mOut = ConfigOf(<<>>, Undefined, Undefined)
    /\ gIn = <<>>
    /\ gOut = InferResult(<<>>)
    /\ yIn = NoYaml
    /\ pOut = ParseError
    /\ registry = RECIPES

----------------------------------------------------------------------------
(* worktree.ts: hasPopulatedCache, findBestSourceWorktree *)

\* most worktrees in the listing
MaxWorktrees == 3

\* A worktree of the listing: its path, branch and bare flag, what
\* detectConfig(path) gives ("throws", "none" for config null, "config"), and
\* for each pattern of config.cache whether it holds a "*" and what stat and
\* readdir find at join(path, pattern): "missing", "file", "emptydir" or
\* "dir" (a directory with entries).
Worktree(path, branch, bare, detect, patterns) ==
    [path |-> path, branch |-> branch, bare |-> bare, detect |-> detect,
     patterns |-> patterns]

CachePattern(glob, at) == [glob |-> glob, at |-> at]

\* hasPopulatedCache
HasPopulatedCache(patterns) ==
    \E k \in DOMAIN patterns : ~patterns[k].glob /\ patterns[k].at = "dir"

\* mutation: a configured cache counts as populated
HasCacheIfConfigured(w) == w.detect = "config" /\ Len(w.patterns) > 0

\* "cachePatterns.length > 0 && (await hasPopulatedCache(wt, cachePatterns))"
HasCache(w) ==
    w.detect = "config" /\ Len(w.patterns) > 0 /\ HasPopulatedCache(w.patterns)

\* mutation: no branch is taken for main
IsMainNever(w) == FALSE

IsMain(w) == w.branch = "main"

IsMaster(w) == w.branch = "master"

\* Array.prototype.find: the place of the first element whose test is true,
\* 0 for undefined; tests[k] is the test of element k
Find(tests) ==
    IF \E k \in DOMAIN tests : tests[k]
    THEN CHOOSE k \in DOMAIN tests : tests[k] /\ \A j \in 1..(k - 1) : ~tests[j]
    ELSE 0

SourceError(code) ==
    [status |-> "error", code |-> code, worktree |-> 0, source |-> "", warning |-> Undefined]

\* { worktree, source, warning }: worktree is given by its path
SourceResult(w, source, warning) ==
    [status |-> "ok", code |-> "", worktree |-> w.path, source |-> source, warning |-> warning]

NotBare(w) == ~w.bare

DetectThrows(w) == w.detect = "throws"

MainWithCache(w) == IsMain(w) /\ HasCache(w)

MasterWithCache(w) == IsMaster(w) /\ HasCache(w)

\* l is <<>> when listWorktrees throws, else <<worktrees>>; cur is the place
\* in the listing that getCurrentWorktree finds, 0 when it throws
FindBestSourceWorktree(l, cur) ==
    IF l = <<>> THEN SourceError("GIT_ERROR")
    ELSE
    LET worktrees == l[1]
        nonBareWorktrees == SelectSeq(worktrees, NotBare)
        candidates == DOMAIN nonBareWorktrees
        mainWithCache == Find([k \in candidates |-> MainWithCache(nonBareWorktrees[k])])
        masterWithCache == Find([k \in candidates |-> MasterWithCache(nonBareWorktrees[k])])
        anyWithCache == Find([k \in candidates |-> HasCache(nonBareWorktrees[k])])
    IN  IF nonBareWorktrees = <<>> THEN SourceError("WORKTREE_NOT_FOUND")
        ELSE IF Find([k \in candidates |-> DetectThrows(nonBareWorktrees[k])]) /= 0 THEN SourceError("CONFIG_ERROR")
        ELSE IF mainWithCache /= 0
        THEN SourceResult(nonBareWorktrees[mainWithCache], "main", Undefined)
        ELSE IF masterWithCache /= 0
        THEN SourceResult(nonBareWorktrees[masterWithCache], "master", Undefined)
        ELSE IF anyWithCache /= 0
        THEN SourceResult(nonBareWorktrees[anyWithCache],
                          nonBareWorktrees[anyWithCache].branch, "Auto-detected source")
        ELSE IF cur /= 0
        THEN SourceResult(worktrees[cur], worktrees[cur].branch,
                          "No cached worktrees found. Using current")
        ELSE SourceResult(nonBareWorktrees[1], nonBareWorktrees[1].branch,
                          "No cached worktrees found. Using")

\* what detectConfig and the file system give for a worktree that is not bare
CacheStates ==
    { <<"throws", <<>> >>, <<"none", <<>> >>,
      <<"config", <<CachePattern(FALSE, "dir")>> >>,
      <<"config", <<CachePattern(TRUE, "dir")>> >>,
      <<"config", <<CachePattern(FALSE, "emptydir")>> >>,
      <<"config", <<CachePattern(FALSE, "file")>> >>,
      <<"config", <<CachePattern(FALSE, "missing"), CachePattern(FALSE, "dir")>> >> }

\* a bare entry of the listing has no branch line; a detached HEAD has its
\* short hash as branch
WorktreeKinds ==
    { Worktree(0, "", TRUE, "none", <<>>) } \cup
    { Worktree(0, b, FALSE, c[1], c[2]) : b \in {"main", "master", "1a2b3c4"}, c \in CacheStates }

\* the listings: the path of a worktree is its place in the listing
Listings ==
    {<<>>} \cup
    { << [k \in DOMAIN l |-> [l[k] EXCEPT !.path = k]] >> : l \in SeqsUpTo(WorktreeKinds, MaxWorktrees) }

NoSource == SourceError("")

SourceIdle ==
    /\ sPc = "idle"
    /\ listing = <<>>
    /\ current = 0
    /\ sOut = NoSource

----------------------------------------------------------------------------
(* commands/clean.ts *)

\* most stale worktree references
MaxStale == 2

\* the paths join(worktree.path, pattern) of the cache patterns without "*"
\* of the non-bare worktrees
ArtifactPaths == {"main/node_modules", "feature/node_modules"}

\* what is at an artifact path: nothing, a file, an empty directory, a
\* directory whose entries are all worktrees of the listing, any other
\* directory
ArtifactStates == {"missing", "file", "emptydir", "worktrees", "dir"}

\* "contents.length === 0 || contents.every(item is a worktree path)", for a
\* path whose stat is a directory
IsOrphaned(st) == st \in {"emptydir", "worktrees"}

\* the part of clean that prunes is in no test of dryRun
PruneRuns(dry) == TRUE

\* "if (!dryRun && itemsToClean.length > 0)"
CleanupRuns(dry, items) == ~dry /\ items /= {}

CleanSummary(total, cleaned, pruned) ==
    [total |-> total, cleaned |-> cleaned, pruned |-> pruned]

NoSummary == CleanSummary(0, 0, 0)

CleanIdle ==
    /\ kPc = "idle"
    /\ dryRun = FALSE
    /\ force = FALSE
    /\ artifacts = [a \in ArtifactPaths |-> "missing"]
    /\ staleRefs = 0
    /\ entry = [artifacts |-> artifacts, staleRefs |-> 0]
    /\ itemsToClean = {}
    /\ prunedWorktrees = 0
    /\ cleanOut = NoSummary

----------------------------------------------------------------------------
(* The commands: add.ts, restore.ts and a direct call of copyArtifacts *)

\* longest cache list of a detected configuration
MaxPatterns == 2

SourceRoot == "sourceWorktree.path"
DestRoot == "targetPath"

\* message: the message of the error where the model reads it, else ""
NoError == [code |-> "", exit |-> 0, message |-> ""]

NoPost == [started |-> FALSE, exited |-> FALSE, cwd |-> "", exit |-> 0]

\* the exit statuses of the post_restore shell
ExitCodes == {0, 1, 2}

\* what detectConfig gives a command: a CONFIG_ERROR, no configuration, or a
\* configuration
Detections ==
    { [kind |-> k, cache |-> <<>>, post_restore |-> Undefined] : k \in {"error", "none"} }
    \cup
    { [kind |-> "config", cache |-> c, post_restore |-> pr] :
        c \in SeqsUpTo(CopyPatterns, MaxPatterns), pr \in {Undefined, "install"} }

NoDetection == [kind |-> "none", cache |-> <<>>, post_restore |-> Undefined]

\* the parsed arguments: flags.noReflinks, whether positional[0] is there
\* (args.positional.length > 0) and whether flags.from is
NoArgs == [noReflinks |-> FALSE, positional |-> TRUE, from |-> "absent"]

ArgSets == [noReflinks : BOOLEAN, positional : BOOLEAN, from : {"absent", "given"}]

\* what the repository answers: isWorktree(targetPath); whether the source
\* worktree is found (findWorktreeByBranch(flags.from) when --from is given,
\* else getCurrentWorktree in add and findBestSourceWorktree in restore);
\* whether findWorktreeByBranch(branch) finds no worktree on the new branch
NoRepo == [isWorktree |-> TRUE, sourceFound |-> TRUE, branchFree |-> TRUE]

RepoSets == [isWorktree : BOOLEAN, sourceFound : BOOLEAN, branchFree : BOOLEAN]

\* the state of everything the copy model owns before a command starts
CopyIdle ==
    /\ cmd = "none"
    /\ args = NoArgs
    /\ repo = NoRepo
    /\ platform = "linux"
    /\ pc = "idle"
    /\ detection = NoDetection
    /\ worktree = FALSE
    /\ opts = [useReflink |-> FALSE, onProgress |-> FALSE]
    /\ src = EmptyTree
    /\ dest = EmptyTree
    /\ dest0 = EmptyTree
    /\ reflinkSupported = "unknown"
    /\ toCopy = <<>>
    /\ idx = 1
    /\ status = <<>>
    /\ destExisted = <<>>
    /\ copied = <<>>
    /\ fsLog = {}
    /\ progress = <<>>
    /\ post = NoPost
    /\ err = NoError

Fail(code) ==
    /\ pc' = "failed"
    /\ err' = [code |-> code, exit |-> 0, message |-> ""]

\* mutation: add does not look for a worktree on the target branch
AddChecksBranchUnchecked(a, r) ==
    IF ~a.positional THEN "INVALID_ARGS"
    ELSE IF a.from = "given" /\ ~r.sourceFound THEN "WORKTREE_NOT_FOUND"
    ELSE ""

\* add: the error code of the checks before detection, "" if they all pass
AddChecks(a, r) ==
    IF ~a.positional THEN "INVALID_ARGS"
    ELSE IF a.from = "given" /\ ~r.sourceFound THEN "WORKTREE_NOT_FOUND"
    ELSE IF ~r.branchFree THEN "WORKTREE_EXISTS"
    ELSE ""

AddValidate ==
    /\ cmd = "add" /\ pc = "start"
    /\ IF AddChecks(args, repo) /= "" THEN Fail(AddChecks(args, repo))
       ELSE pc' = "detect" /\ UNCHANGED err
    /\ UNCHANGED <<cmd, args, repo, platform, detection, worktree, opts, src, dest, dest0,
                   reflinkSupported, toCopy, idx, status, destExisted, copied, fsLog,
                   progress, post>>
    /\ UNCHANGED <<dedupVars, detectVars, sourceVars, cleanVars>>

\* the errors findBestSourceWorktree throws
BestSourceErrors == {"GIT_ERROR", "WORKTREE_NOT_FOUND", "CONFIG_ERROR"}

\* restore with --from optional: the checks before detection; without --from
\* the source is the one findBestSourceWorktree gives
RestoreValidate ==
    /\ cmd = "restore" /\ pc = "start"
    /\ IF ~args.positional THEN Fail("INVALID_ARGS")
       ELSE IF ~repo.isWorktree THEN Fail("WORKTREE_NOT_FOUND")
       ELSE IF args.from = "given" /\ ~repo.sourceFound THEN Fail("WORKTREE_NOT_FOUND")
       ELSE IF args.from = "absent" /\ ~repo.sourceFound
       THEN \E code \in BestSourceErrors : Fail(code)
       ELSE pc' = "detect" /\ UNCHANGED err
    /\ UNCHANGED <<cmd, args, repo, platform, detection, worktree, opts, src, dest, dest0,
                   reflinkSupported, toCopy, idx, status, destExisted, copied, fsLog,
                   progress, post>>
    /\ UNCHANGED <<dedupVars, detectVars, sourceVars, cleanVars>>

\* mutation: the target is looked at before --from is
RestoreFromChecksTargetFirst(a, r) ==
    IF ~a.positional THEN "INVALID_ARGS"
    ELSE IF ~r.isWorktree THEN "WORKTREE_NOT_FOUND"
    ELSE IF a.from = "absent" THEN "INVALID_ARGS"
    ELSE IF ~r.sourceFound THEN "WORKTREE_NOT_FOUND"
    ELSE ""

\* commands/restore.ts, where --from is required: the error code of the
\* checks before detection, "" if they all pass
RestoreFromChecks(a, r) ==
    IF ~a.positional THEN "INVALID_ARGS"
    ELSE IF a.from = "absent" THEN "INVALID_ARGS"
    ELSE IF ~r.isWorktree THEN "WORKTREE_NOT_FOUND"
    ELSE IF ~r.sourceFound THEN "WORKTREE_NOT_FOUND"
    ELSE ""

\* the messages of the two INVALID_ARGS errors of commands/restore.ts
RestoreFromMessage(a) ==
    IF ~a.positional
    THEN "Missing target path. Usage: wtree restore <path> --from <branch>"
    ELSE IF a.from = "absent"
    THEN "Missing --from flag. Usage: wtree restore <path> --from <branch>"
    ELSE ""

RestoreFromValidate ==
    /\ cmd = "restoreFrom" /\ pc = "start"
    /\ LET code == RestoreFromChecks(args, repo) IN
        IF code /= ""
        THEN /\ pc' = "failed"
             /\ err' = [code |-> code, exit |-> 0, message |-> RestoreFromMessage(args)]
        ELSE pc' = "detect" /\ UNCHANGED err
    /\ UNCHANGED <<cmd, args, repo, platform, detection, worktree, opts, src, dest, dest0,
                   reflinkSupported, toCopy, idx, status, destExisted, copied, fsLog,
                   progress, post>>
    /\ UNCHANGED <<dedupVars, detectVars, sourceVars, cleanVars>>

\* "const detection = await detectConfig(sourceWorktree.path)" and, in
\* restore, the check of detection.config
Detect ==
    /\ cmd \in {"add", "restore", "restoreFrom"} /\ pc = "detect"
    /\ \E d \in Detections :
        IF d.kind = "error"
        THEN Fail("CONFIG_ERROR") /\ detection' = d
        ELSE IF d.kind = "none" /\ cmd /= "add"
        THEN Fail("DETECTION_FAILED") /\ detection' = d
        ELSE /\ detection' = d
             /\ pc' = IF cmd = "add" THEN "create" ELSE "copy"
             /\ UNCHANGED err
    /\ UNCHANGED <<cmd, args, repo, platform, worktree, opts, src, dest, dest0,
                   reflinkSupported, toCopy, idx, status, destExisted, copied, fsLog,
                   progress, post>>
    /\ UNCHANGED <<dedupVars, detectVars, sourceVars, cleanVars>>

\* add: "await createWorktree(...)" and the test "if (detection.config)"
AddCreateWorktree ==
    /\ cmd = "add" /\ pc = "create"
    /\ \E created \in BOOLEAN :
        IF ~created
        THEN Fail("GIT_ERROR") /\ UNCHANGED worktree
        ELSE /\ worktree' = TRUE
             /\ pc' = IF detection.kind = "config" THEN "copy" ELSE "done"
             /\ UNCHANGED err
    /\ UNCHANGED <<cmd, args, repo, platform, detection, opts, src, dest, dest0,
                   reflinkSupported, toCopy, idx, status, destExisted, copied, fsLog,
                   progress, post>>
    /\ UNCHANGED <<dedupVars, detectVars, sourceVars, cleanVars>>

\* copyArtifacts up to its loop: the patterns are expanded against the source
\* tree and the matches de-duplicated.  The two trees are read here for the
\* first time: they are whatever the worktrees hold at that moment.
CopyArtifactsEnter ==
    /\ pc = "copy"
    /\ \E s \in SrcTrees, d \in DestTrees :
        /\ src' = s
        /\ dest' = d
        /\ dest0' = d
        /\ toCopy' = DeduplicatePaths(AllMatches(detection.cache, s))
    /\ \E o \in [useReflink : BOOLEAN, onProgress : BOOLEAN] :
        /\ cmd \in {"add", "restore"} =>
              o = [useReflink |-> ~args.noReflinks, onProgress |-> TRUE]
        /\ cmd = "restoreFrom" => o = [useReflink |-> TRUE, onProgress |-> FALSE]
        /\ opts' = o
    /\ status' = [k \in 1..Len(toCopy') |-> "pending"]
    /\ destExisted' = [k \in 1..Len(toCopy') |-> FALSE]
    /\ idx' = 1
    /\ copied' = <<>>
    /\ pc' = "copying"
    /\ UNCHANGED <<cmd, args, repo, platform, detection, worktree, reflinkSupported, fsLog,
                   progress, post, err>>
    /\ UNCHANGED <<dedupVars, detectVars, sourceVars, cleanVars>>

\* the string "done"
Done == <<100, 111, 110, 101>>

\* mutation: the call after the loop is left out
ReportItemsOnly(call) ==
    IF opts.onProgress /\ call[3] /= <<100, 111, 110, 101>> THEN Append(progress, call)
    ELSE progress

Report(call) == IF opts.onProgress THEN Append(progress, call) ELSE progress

\* one turn of the loop of copyArtifacts
CopyItem ==
    /\ pc = "copying" /\ idx <= Len(toCopy)
    /\ LET p == toCopy[idx] IN
        /\ progress' = Report(<<idx - 1, Len(toCopy), p>>)
        /\ destExisted' = [destExisted EXCEPT ![idx] = Exists(dest, p)]
        /\ IF ~Exists(src, p) \/ DestBlocks(dest, p)
           THEN /\ status' = [status EXCEPT ![idx] = "skipped"]
                /\ idx' = idx + 1
                /\ UNCHANGED <<dest, reflinkSupported, fsLog, copied, pc, err>>
           ELSE \E probe, cloneOk, linkOk \in BOOLEAN :
                LET r == TryCopy(p, opts.useReflink, platform, reflinkSupported,
                                 dest, src, probe, cloneOk, linkOk)
                IN  /\ dest' = r.dest
                    /\ reflinkSupported' = r.cache
                    /\ fsLog' = fsLog \cup r.log
                    /\ IF r.outcome = "ok"
                       THEN /\ copied' = Append(copied, p)
                            /\ status' = [status EXCEPT ![idx] = "copied"]
                            /\ idx' = idx + 1
                            /\ UNCHANGED <<pc, err>>
                       ELSE IF Caught(r.outcome)
                       THEN /\ status' = [status EXCEPT ![idx] = "failed"]
                            /\ idx' = idx + 1
                            /\ UNCHANGED <<copied, pc, err>>
                       ELSE /\ status' = [status EXCEPT ![idx] = "failed"]
                            /\ Fail("UNKNOWN")
                            /\ UNCHANGED <<copied, idx>>
    /\ UNCHANGED <<cmd, args, repo, platform, detection, worktree, opts, src, dest0, toCopy, post>>
    /\ UNCHANGED <<dedupVars, detectVars, sourceVars, cleanVars>>

\* the end of copyArtifacts: the last progress call and "return copied"
CopyArtifactsReturn ==
    /\ pc = "copying" /\ idx > Len(toCopy)
    /\ progress' = Report(<<Len(toCopy), Len(toCopy), Done>>)
    /\ pc' = "returned"
    /\ UNCHANGED <<cmd, args, repo, platform, detection, worktree, opts, src, dest, dest0,
                   reflinkSupported, toCopy, idx, status, destExisted, copied, fsLog,
                   post, err>>
    /\ UNCHANGED <<dedupVars, detectVars, sourceVars, cleanVars>>

\* mutation: the command does not wait for copyArtifacts
PostRestoreMayStartEarly == pc \in {"copying", "returned"}

\* add and restore reach runPostRestore after "await copyArtifacts(...)"
PostRestoreMayStart == pc = "returned"

\* "if (detection.config.post_restore) await runPostRestore(..., targetPath)":
\* the shell is spawned
PostRestoreStart ==
    /\ cmd \in {"add", "restore", "restoreFrom"} /\ PostRestoreMayStart
    /\ detection.post_restore /= Undefined
    /\ post' = [started |-> TRUE, exited |-> FALSE, cwd |-> DestRoot, exit |-> 0]
    /\ pc' = "post"
    /\ UNCHANGED <<cmd, args, repo, platform, detection, worktree, opts, src, dest, dest0,
                   reflinkSupported, toCopy, idx, status, destExisted, copied, fsLog,
                   progress, err>>
    /\ UNCHANGED <<dedupVars, detectVars, sourceVars, cleanVars>>

\* mutation: a failed post_restore is not reported
PostRestoreFailsNever(exitCode) == FALSE

\* runPostRestore: "if (exitCode !== 0) throw"
PostRestoreFails(exitCode) == exitCode /= 0

\* runPostRestore: the shell exits; the command fails or returns its result
PostRestoreExit ==
    /\ pc = "post"
    /\ \E exitCode \in ExitCodes :
        /\ post' = [post EXCEPT !.exited = TRUE, !.exit = exitCode]
        /\ IF PostRestoreFails(exitCode)
           THEN /\ pc' = "failed"
                /\ err' = [code |-> "COPY_ERROR", exit |-> exitCode, message |-> ""]
           ELSE /\ pc' = "done"
                /\ UNCHANGED err
    /\ UNCHANGED <<cmd, args, repo, platform, detection, worktree, opts, src, dest, dest0,
                   reflinkSupported, toCopy, idx, status, destExisted, copied, fsLog,
                   progress>>
    /\ UNCHANGED <<dedupVars, detectVars, sourceVars, cleanVars>>

\* no post_restore configured: the command returns its result
CommandReturn ==
    /\ cmd \in {"add", "restore", "restoreFrom"} /\ pc = "returned"
    /\ detection.post_restore = Undefined
    /\ pc' = "done"
    /\ UNCHANGED <<cmd, args, repo, platform, detection, worktree, opts, src, dest, dest0,
                   reflinkSupported, toCopy, idx, status, destExisted, copied, fsLog,
                   progress, post, err>>
    /\ UNCHANGED <<dedupVars, detectVars, sourceVars, cleanVars>>

\* a command line "wtree add ..." or "wtree restore ...", or a call of
\* copyArtifacts(sourceRoot, destRoot, patterns, onProgress?, options?)
CopyInit ==
    /\ CleanIdle
    /\ DedupIdle
    /\ DetectIdle
    /\ SourceIdle
    /\ cmd \in {"copy", "add", "restore", "restoreFrom"}
    /\ platform \in {"darwin", "linux"}
    /\ args \in ArgSets
    /\ repo \in RepoSets
    /\ cmd = "copy" => args = NoArgs /\ repo = NoRepo
    \* add asks nothing about the target and, without --from, takes the
    \* current worktree; the restores ask nothing about a new branch; the
    \* restore that requires --from reads no noReflinks
    /\ cmd = "add" => repo.isWorktree /\ (args.from = "absent" => repo.sourceFound)
    /\ cmd \in {"restore", "restoreFrom"} => repo.branchFree
    /\ cmd = "restoreFrom" => ~args.noReflinks
    /\ pc = IF cmd = "copy" THEN "copy" ELSE "start"
    /\ detection \in Detections
    /\ IF cmd = "copy"
       THEN detection.kind = "config" /\ detection.post_restore = Undefined
       ELSE detection = NoDetection
    /\ worktree = FALSE
    /\ opts = [useReflink |-> FALSE, onProgress |-> FALSE]
    /\ src = EmptyTree
    /\ dest = EmptyTree
    /\ dest0 = EmptyTree
    /\ reflinkSupported = "unknown"
    /\ toCopy = <<>>
    /\ idx = 1
    /\ status = <<>>
    /\ destExisted = <<>>
    /\ copied = <<>>
    /\ fsLog = {}
    /\ progress = <<>>
    /\ post = NoPost
    /\ err = NoError

CopyNext ==
    \/ AddValidate
    \/ RestoreValidate
    \/ RestoreFromValidate
    \/ Detect
    \/ AddCreateWorktree
    \/ CopyArtifactsEnter
    \/ CopyItem
    \/ CopyArtifactsReturn
    \/ PostRestoreStart
    \/ PostRestoreExit
    \/ CommandReturn

SpecCopy == CopyInit /\ [][CopyNext]_vars

----------------------------------------------------------------------------
(* The detection harness *)

DetectInit ==
    /\ CleanIdle
    /\ DedupIdle
    /\ CopyIdle
    /\ SourceIdle
    /\ \/ /\ tPc = "in"
          /\ root \in Roots
          /\ mIn = <<>>
          /\ gIn = <<>>
          /\ yIn = NoYaml
       \/ /\ tPc = "merge"
          /\ root = NoRoot
          /\ mIn \in MergeInputs
          /\ gIn = <<>>
          /\ yIn = NoYaml
       \/ /\ tPc = "infer"
          /\ root = NoRoot
          /\ mIn = <<>>
          /\ gIn \in GitignoreInputs
          /\ yIn = NoYaml
       \/ /\ tPc = "parse"
          /\ root = NoRoot
          /\ mIn = <<>>
          /\ gIn = <<>>
          /\ yIn \in YamlFiles
    /\ tOut = NoResult
    /\ mOut = ConfigOf(<<>>, Undefined, Undefined)
    /\ gOut = InferResult(<<>>)
    /\ pOut = ParseError
    /\ registry = RECIPES

DetectCall ==
    /\ tPc = "in"
    /\ tPc' = "out"
    /\ tOut' = DetectConfig(root)
    /\ UNCHANGED <<root, mIn, mOut, gIn, gOut, yIn, pOut, registry>>
    /\ UNCHANGED <<dedupVars, copyVars, sourceVars, cleanVars>>

MergeCall ==
    /\ tPc = "merge"
    /\ tPc' = "merged"
    /\ mOut' = MergeRecipeConfigs(mIn)
    /\ UNCHANGED <<root, tOut, mIn, gIn, gOut, yIn, pOut, registry>>
    /\ UNCHANGED <<dedupVars, copyVars, sourceVars, cleanVars>>

InferCall ==
    /\ tPc = "infer"
    /\ tPc' = "inferred"
    /\ gOut' = InferResult(gIn)
    /\ UNCHANGED <<root, tOut, mIn, mOut, gIn, yIn, pOut, registry>>
    /\ UNCHANGED <<dedupVars, copyVars, sourceVars, cleanVars>>

\* parseConfig reads the registry through getRecipeByName; ParseConfig reads
\* RECIPES, which is what the registry holds before the call
ParseCall ==
    /\ tPc = "parse"
    /\ registry = RECIPES
    /\ tPc' = "parsed"
    /\ pOut' = ParseConfig(yIn)
    /\ registry' = RegistryAfterParse(registry, yIn)
    /\ UNCHANGED <<root, tOut, mIn, mOut, gIn, gOut, yIn>>
    /\ UNCHANGED <<dedupVars, copyVars, sourceVars, cleanVars>>

DetectNext == DetectCall \/ MergeCall \/ InferCall \/ ParseCall

SpecDetect == DetectInit /\ [][DetectNext]_vars

----------------------------------------------------------------------------
(* deduplicatePaths on every list of matches *)

\* the strings the matches are drawn from:
\*   "a", "a-b", "a/b", "a/b/c", "a/c", "ab", "b", "b/a"
DedupStrings ==
    { <<97>>, <<97, 45, 98>>, <<97, 47, 98>>, <<97, 47, 98, 47, 99>>,
      <<97, 47, 99>>, <<97, 98>>, <<98>>, <<98, 47, 97>> }

DedupInit ==
    /\ CleanIdle
    /\ dPc = "in"
    /\ dIn \in SeqsUpTo(DedupStrings, MaxMatches)
    /\ dOut = <<>>
    /\ dOut2 = <<>>
    /\ CopyIdle
    /\ DetectIdle
    /\ SourceIdle

DedupCall ==
    /\ dPc = "in"
    /\ dPc' = "out"
    /\ dOut' = DeduplicatePaths(dIn)
    /\ dOut2' = DeduplicatePaths(DeduplicatePaths(dIn))
    /\ UNCHANGED dIn
    /\ UNCHANGED <<copyVars, detectVars, sourceVars, cleanVars>>

DedupNext == DedupCall

SpecDedup == DedupInit /\ [][DedupNext]_vars

----------------------------------------------------------------------------
(* findBestSourceWorktree on every listing *)

\* "git rev-parse --show-toplevel" fails in a bare repository, so the
\* worktree of cwd is never a bare entry
SourceInit ==
    /\ CleanIdle
    /\ sPc = "in"
    /\ listing \in Listings
    /\ current \in {0} \cup (IF listing = <<>> THEN {}
                             ELSE {k \in DOMAIN listing[1] : ~listing[1][k].bare})
    /\ sOut = NoSource
    /\ DedupIdle
    /\ CopyIdle
    /\ DetectIdle

SourceCall ==
    /\ sPc = "in"
    /\ sPc' = "out"
    /\ sOut' = FindBestSourceWorktree(listing, current)
    /\ UNCHANGED <<listing, current>>
    /\ UNCHANGED <<dedupVars, copyVars, detectVars, cleanVars>>

SourceNext == SourceCall

SpecSource == SourceInit /\ [][SourceNext]_vars

----------------------------------------------------------------------------
(* Claims on deduplicatePaths *)

NoDuplicates(s) == \A i, j \in DOMAIN s : i /= j => s[i] /= s[j]

\* C2: the result of deduplicatePaths holds no path together with a strict
\* "/"-bounded ancestor of it, and holds no path twice.
C2_Containment ==
    dPc = "out" =>
        /\ \A a, b \in Range(dOut) : ~StrictAncestor(a, b)
        /\ NoDuplicates(dOut)

C2_Witness ==
    /\ dPc = "out"
    /\ dIn = << <<97, 47, 98>>, <<97>>, <<97>> >>
    /\ dOut = << <<97>> >>

\* the matched paths that no other matched path is a strict ancestor of
Maximal(paths) ==
    {p \in Range(paths) : ~\E q \in Range(paths) : StrictAncestor(q, p)}

Ascending(s) == \A i, j \in DOMAIN s : i < j => LexLess(s[i], s[j])

\* C3: deduplicatePaths returns, in ascending string order and each once,
\* exactly the matched paths without a matched strict ancestor; "a-b" stays
\* next to "a"; and from a, a/b, a/b/c only a is scheduled.
C3_ExactResult ==
    dPc = "out" =>
        /\ Range(dOut) = Maximal(dIn)
        /\ Ascending(dOut)
        /\ ({<<97>>, <<97, 45, 98>>} \subseteq Range(dIn)
                => {<<97>>, <<97, 45, 98>>} \subseteq Range(dOut))
        /\ (Range(dIn) = {<<97>>, <<97, 47, 98>>, <<97, 47, 98, 47, 99>>}
                => dOut = << <<97>> >>)

C3_Witness ==
    /\ dPc = "out"
    /\ dIn = << <<97, 47, 98>>, <<97, 45, 98>>, <<97>> >>
    /\ dOut = << <<97>>, <<97, 45, 98>> >>

\* C4: deduplicating a de-duplicated list changes nothing.
C4_Idempotent ==
    dPc = "out" => dOut2 = dOut

C4_Witness ==
    /\ dPc = "out"
    /\ Len(dIn) = 3
    /\ Len(dOut) = 2
    /\ dOut2 = dOut

----------------------------------------------------------------------------
(* Claims on copyArtifacts and on the commands that call it *)

Under(p) == {q \in CopyPaths : q = p \/ StrictAncestor(p, q)}

\* C1: a scheduled path whose destination exists when its turn comes is
\* skipped: no command is run for it, it is not in the copied list, and what
\* the destination held at and below it is what it held on entry.
C1_NoOverwrite ==
    \A k \in DOMAIN toCopy :
        (status[k] /= "pending" /\ destExisted[k]) =>
            /\ status[k] = "skipped"
            /\ \A e \in fsLog : e[2] /= toCopy[k]
            /\ toCopy[k] \notin Range(copied)
            /\ \A q \in Under(toCopy[k]) : dest[q] = dest0[q]

C1_Witness ==
    /\ pc = "returned"
    /\ \E k \in DOMAIN toCopy :
        /\ destExisted[k]
        /\ Exists(src, toCopy[k])
        /\ dest0[toCopy[k]] = "dir"
        /\ status[k] = "skipped"
    /\ \E k \in DOMAIN toCopy : status[k] = "copied"

\* C5: an item whose copy failed, with a WtreeError or with anything else,
\* never ends the command, and every item after it gets its turn before
\* copyArtifacts returns.
C5_FailureDoesNotAbort ==
    \A k \in DOMAIN toCopy :
        status[k] = "failed" =>
            /\ pc = "failed" => post.exited
            /\ pc = "copying" => idx > k
            /\ pc /= "copying" => \A j \in DOMAIN toCopy : status[j] /= "pending"

C5_Witness ==
    /\ pc = "returned"
    /\ Len(toCopy) = 2
    /\ status = <<"failed", "copied">>
    /\ copied = <<toCopy[2]>>

\* C6: once the post_restore shell has been started, copyArtifacts has
\* returned and no scheduled item is pending; the shell runs in the
\* destination root.
C6_PostRestoreAfterCopies ==
    post.started =>
        /\ pc \in {"post", "done", "failed"}
        /\ idx > Len(toCopy)
        /\ \A k \in DOMAIN toCopy : status[k] /= "pending"
        /\ post.cwd = DestRoot

C6_Witness ==
    /\ post.started
    /\ ~post.exited
    /\ status = <<"copied", "failed">>

\* C7: a post_restore shell that exits non-zero fails the command with an
\* error carrying that exit status, whatever the copies did; what was copied
\* stays in the destination and, for add, the worktree stays created.
C7_PostRestoreFailureIsFatal ==
    (post.exited /\ post.exit /= 0) =>
        /\ pc = "failed"
        /\ err.code = "COPY_ERROR"
        /\ err.exit = post.exit
        /\ \A p \in Range(copied) : Exists(dest, p) /\ dest[p] /= dest0[p]
        /\ cmd = "add" => worktree

C7_Witness ==
    /\ cmd = "add"
    /\ pc = "failed"
    /\ post.exit = 2
    /\ err.exit = 2
    /\ Len(toCopy) = 2
    /\ \A k \in DOMAIN toCopy : status[k] = "copied"
    /\ worktree

----------------------------------------------------------------------------
(* Claims on detectConfig *)

\* C8: a .wtree.yaml that parses makes the result "explicit" with the parsed
\* configuration, whatever marker files and .gitignore the root holds, also
\* when the parsed cache list is empty.
C8_ExplicitWins ==
    (tPc = "out" /\ root.yaml.kind /= "absent" /\ ParseConfig(root.yaml).ok) =>
        /\ tOut.status = "ok"
        /\ tOut.method = "explicit"
        /\ tOut.config = << ParseConfig(root.yaml).config >>
        /\ tOut.recipe = ParseConfig(root.yaml).config.recipe
        /\ (root.yaml.extends = Undefined /\ root.yaml.cacheType = "absent")
               => tOut.config[1].cache = <<>>
        /\ (root.yaml.extends = Undefined /\ root.yaml.cacheItems = <<"dist">>)
               => tOut.config[1].cache = <<"dist">>

C8_Witness ==
    /\ tPc = "out"
    /\ tOut.method = "explicit"
    /\ tOut.config[1].cache = <<>>
    /\ root.files = {"Cargo.lock", "package-lock.json"}
    /\ root.gitignore = << << <<"node_modules">> >> >>

\* the ways a .wtree.yaml is malformed: unreadable, invalid YAML, not an
\* object, an unknown recipe in extends, a cache that is no array, a
\* post_restore that is no string
Malformed(y) ==
    \/ y.kind \in {"unreadable", "invalid", "null", "scalar"}
    \/ /\ y.kind = "map"
       /\ \/ y.extends /= Undefined /\ GetRecipeByName(y.extends) = <<>>
          \/ y.cacheType \in {"truthy", "falsy"}
          \/ y.prType = "other"

\* C9: a malformed .wtree.yaml makes detectConfig fail with CONFIG_ERROR and
\* never gives a recipe, mixed, gitignore or none result.
C9_MalformedIsConfigError ==
    (tPc = "out" /\ Malformed(root.yaml)) =>
        /\ tOut.status = "error"
        /\ tOut.code = "CONFIG_ERROR"

\* the recipes of the registry with a marker file in the root
Matching(files) == {k \in DOMAIN RECIPES : Range(RECIPES[k].detect) \cap files /= {}}

\* C10: a configuration merged from two or more recipes has no post_restore,
\* whether or not one of the recipes defines one.
C10_MixedHasNoPostRestore ==
    /\ (tPc = "out" /\ root.yaml.kind = "absent" /\ Cardinality(Matching(root.files)) >= 2) =>
           /\ tOut.method = "mixed"
           /\ tOut.config[1].post_restore = Undefined
    /\ (tPc = "out" /\ tOut.method = "mixed") => tOut.config[1].post_restore = Undefined
    /\ tPc = "merged" => mOut.post_restore = Undefined

C10_Witness ==
    /\ tPc = "merged"
    /\ mIn[1].config.post_restore /= Undefined
    /\ mIn[2].config.post_restore = Undefined
    /\ mOut.post_restore = Undefined
    /\ mOut.cache = <<"node_modules", "target">>

\* the position of the recipe called name in the registry
RegistryIndex(name) == CHOOSE k \in DOMAIN RECIPES : RECIPES[k].name = name

Least(S) == CHOOSE m \in S : \A n \in S : m <= n

Greatest(S) == CHOOSE m \in S : \A n \in S : m >= n

\* where pattern x first stands when the cache lists of the recipes matching
\* files are written one after the other in registry order
FirstPlace(x, files) ==
    Least(UNION { {100 * k + i : i \in {n \in DOMAIN RECIPES[k].config.cache :
                                            RECIPES[k].config.cache[n] = x}} :
                  k \in Matching(files) })

MatchedPatterns(files) == UNION {Range(RECIPES[k].config.cache) : k \in Matching(files)}

\* C12: with a recipe marker file and no .wtree.yaml the result is "recipe"
\* or "mixed", its cache holds patterns of the matched recipes only, and the
\* same result is given for every .gitignore, readable or not.
C12_RecipesShortCircuitGitignore ==
    (tPc = "out" /\ root.yaml.kind = "absent" /\ Matching(root.files) /= {}) =>
        /\ tOut.status = "ok"
        /\ tOut.method \in {"recipe", "mixed"}
        /\ Range(tOut.config[1].cache) \subseteq MatchedPatterns(root.files)
        /\ \A g \in RootGitignores : DetectConfig([root EXCEPT !.gitignore = g]) = tOut

C12_Witness ==
    /\ tPc = "out"
    /\ root.yaml.kind = "absent"
    /\ root.files = {"Cargo.lock"}
    /\ root.gitignore = << << <<"node_modules">> >> >>
    /\ tOut.method = "recipe"
    /\ tOut.config[1].cache = <<"target">>

\* A line as parseGitignore is meant to read it: the text between the first
\* and the last symbol that is no blank
NonBlank(line) == {k \in DOMAIN line : line[k] /= " "}

Text(line) ==
    IF NonBlank(line) = {} THEN <<>>
    ELSE SubSeq(line, Least(NonBlank(line)), Greatest(NonBlank(line)))

\* the line is a pattern: not empty, no comment, no negation
IsPattern(line) == Text(line) /= <<>> /\ Text(line)[1] \notin {"#", "!"}

\* the text looked up: one trailing "/" removed
LookedUp(line) ==
    IF Text(line)[Len(Text(line))] = "/"
    THEN SubSeq(Text(line), 1, Len(Text(line)) - 1) ELSE Text(line)

\* the targets the hint table lists for a line
TableTargets(line) ==
    IF IsPattern(line) /\ LookedUp(line) \in DOMAIN GITIGNORE_HINTS
    THEN GITIGNORE_HINTS[LookedUp(line)] ELSE <<>>

\* every entry the lookup finds maps to an empty target list
RecognisedAllEmpty(lines) ==
    \A k \in DOMAIN lines :
        IsPattern(lines[k]) =>
            /\ LookedUp(lines[k]) \notin InheritedKeys
            /\ TableTargets(lines[k]) = <<>>

FirstLine(x, lines) == Least({k \in DOMAIN lines : x \in Range(TableTargets(lines[k]))})

C15_ReadmeStacksDetected ==
    \A s \in ReadmeStacks :
        (tPc = "out" /\ root.yaml.kind = "absent" /\ root.gitignore = <<>>
             /\ Cardinality(root.files) = 1 /\ root.files \subseteq s[2]) =>
            /\ tOut.status = "ok"
            /\ tOut.method = "recipe"
            /\ tOut.recipe = s[1]
            /\ tOut.config /= <<>>
            /\ tOut.config[1].cache = s[3]

MonorepoRecipes == {"turborepo", "nx", "rush", "pnpm-workspaces"}

MonorepoMarkers == {"turbo.json", "nx.json", "rush.json", "pnpm-workspace.yaml"}

Lockfiles == {"pnpm-lock.yaml", "package-lock.json", "yarn.lock"}

\* C16: the monorepo recipes stand before pnpm, npm and yarn in the registry,
\* and a root with a monorepo marker and a lockfile has a monorepo recipe,
\* one whose marker is in the root, as primary recipe, with its patterns in
\* the cache.
C16_MonorepoFirst ==
    /\ \A m \in MonorepoRecipes, p \in {"pnpm", "npm", "yarn"} :
           /\ GetRecipeByName(m) /= <<>>
           /\ GetRecipeByName(p) /= <<>>
           /\ RegistryIndex(m) < RegistryIndex(p)
    /\ (tPc = "out" /\ root.yaml.kind = "absent"
            /\ root.files \cap MonorepoMarkers /= {} /\ root.files \cap Lockfiles /= {}) =>
           /\ tOut.status = "ok"
           /\ tOut.recipe \in MonorepoRecipes
           /\ Range(GetRecipeByName(tOut.recipe)[1].detect) \cap root.files /= {}
           /\ Range(GetRecipeByName(tOut.recipe)[1].config.cache)
                  \subseteq Range(tOut.config[1].cache)

C16_Witness ==
    /\ tPc = "out"
    /\ root.yaml.kind = "absent"
    /\ root.files = {"turbo.json", "pnpm-lock.yaml"}
    /\ tOut.method = "mixed"
    /\ tOut.recipe = "turborepo"
    /\ tOut.config[1].cache = <<"node_modules", ".turbo", "**/node_modules">>

----------------------------------------------------------------------------
(* Claims on parseConfig and on the cache list of every configuration *)

\* the entries of list that stand in no earlier place of it and not in base
NewEntries(base, list) ==
    {k \in DOMAIN list :
        /\ list[k] \notin Range(base)
        /\ \A j \in 1..(k - 1) : list[j] /= list[k]}

C20_CacheHasNoDuplicates ==
    /\ (tPc = "out" /\ tOut.config /= <<>>) =>
           /\ tOut.method \in {"explicit", "recipe", "mixed", "gitignore"}
           /\ NoDuplicates(tOut.config[1].cache)
    /\ tPc = "merged" => NoDuplicates(mOut.cache)
    /\ (tPc = "parsed" /\ pOut.ok) => NoDuplicates(pOut.config.cache)
    /\ (tPc = "inferred" /\ gOut.config /= <<>>) => NoDuplicates(gOut.config[1].cache)

C20_Witness ==
    /\ tPc = "out"
    /\ root.yaml.extends = "yarn"
    /\ root.yaml.cacheItems = <<"node_modules", "dist", "dist">>
    /\ root.files = {"pnpm-lock.yaml", "bun.lock"}
    /\ tOut.method = "explicit"
    /\ tOut.config[1].cache = <<"node_modules", ".yarn/cache", "dist">>

----------------------------------------------------------------------------
(* Claims on findBestSourceWorktree *)

\* the places of the listing whose worktree is not bare
NonBare == IF listing = <<>> THEN {} ELSE {k \in DOMAIN listing[1] : ~listing[1][k].bare}

\* the worktree at place k has a cache directory with entries
Populated(k) ==
    LET w == listing[1][k]
    IN  /\ w.detect = "config"
        /\ \E n \in DOMAIN w.patterns : ~w.patterns[n].glob /\ w.patterns[n].at = "dir"

OnBranch(k, branch) == listing[1][k].branch = branch

\* detectConfig gives a result for every worktree that is not bare
Detectable == \A k \in NonBare : listing[1][k].detect /= "throws"

\* the place the ranking gives
Ranked ==
    LET main == {k \in NonBare : OnBranch(k, "main") /\ Populated(k)}
        master == {k \in NonBare : OnBranch(k, "master") /\ Populated(k)}
        any == {k \in NonBare : Populated(k)}
    IN  IF main /= {} THEN Least(main)
        ELSE IF master /= {} THEN Least(master)
        ELSE IF any /= {} THEN Least(any)
        ELSE IF current /= 0 THEN current
        ELSE Least(NonBare)

C18_GuessIsToldAndPopulatedPreferred ==
    (sPc = "out" /\ sOut.status = "ok") =>
        /\ sOut.worktree \in DOMAIN listing[1]
        /\ (sOut.warning /= Undefined) <=>
               ~ /\ Populated(sOut.worktree)
                 /\ OnBranch(sOut.worktree, "main") \/ OnBranch(sOut.worktree, "master")
        /\ (\E k \in NonBare : Populated(k)) => Populated(sOut.worktree)

C18_Witness ==
    /\ sPc = "out"
    /\ listing /= <<>>
    /\ Len(listing[1]) = 2
    /\ OnBranch(1, "main") /\ ~Populated(1)
    /\ OnBranch(2, "1a2b3c4") /\ Populated(2)
    /\ current = 1
    /\ sOut.worktree = 2
    /\ sOut.warning = "Auto-detected source"

----------------------------------------------------------------------------
(* The clean command *)

CleanInit ==
    /\ DedupIdle
    /\ CopyIdle
    /\ DetectIdle
    /\ SourceIdle
    /\ kPc = "start"
    /\ dryRun \in BOOLEAN
    /\ force \in BOOLEAN
    /\ artifacts \in [ArtifactPaths -> ArtifactStates]
    /\ staleRefs \in 0..MaxStale
    /\ entry = [artifacts |-> artifacts, staleRefs |-> staleRefs]
    /\ itemsToClean = {}
    /\ prunedWorktrees = 0
    /\ cleanOut = NoSummary

\* getWorktreeRoot, listWorktrees and the loop over the worktrees: a git or
\* configuration error ends clean, else the orphaned directories are listed
CleanScan ==
    /\ kPc = "start"
    /\ \E ok \in BOOLEAN :
        IF ~ok THEN kPc' = "failed" /\ UNCHANGED itemsToClean
        ELSE /\ itemsToClean' = {a \in ArtifactPaths : IsOrphaned(artifacts[a])}
             /\ kPc' = "scanned"
    /\ UNCHANGED <<dryRun, force, artifacts, staleRefs, entry, prunedWorktrees, cleanOut>>
    /\ UNCHANGED <<dedupVars, copyVars, detectVars, sourceVars>>

\* "before = listWorktrees(); pruneWorktrees(); after = listWorktrees()" in
\* a try block: git worktree prune drops every stale reference
CleanPrune ==
    /\ kPc = "scanned"
    /\ IF PruneRuns(dryRun)
       THEN \E gitOk \in BOOLEAN :
               IF gitOk
               THEN staleRefs' = 0 /\ prunedWorktrees' = staleRefs
               ELSE UNCHANGED <<staleRefs, prunedWorktrees>>
       ELSE UNCHANGED <<staleRefs, prunedWorktrees>>
    /\ kPc' = "pruned"
    /\ UNCHANGED <<dryRun, force, artifacts, entry, itemsToClean, cleanOut>>
    /\ UNCHANGED <<dedupVars, copyVars, detectVars, sourceVars>>

\* the cleanup loop and the result: each rmdir removes its directory or
\* throws, and cleanedCount counts the ones that did not throw
CleanExecute ==
    /\ kPc = "pruned"
    /\ \E removed \in SUBSET itemsToClean :
        /\ CleanupRuns(dryRun, itemsToClean) \/ removed = {}
        /\ artifacts' = [a \in ArtifactPaths |->
                            IF a \in removed THEN "missing" ELSE artifacts[a]]
        /\ cleanOut' = CleanSummary(Cardinality(itemsToClean),
                                    IF dryRun THEN 0 ELSE Cardinality(removed),
                                    prunedWorktrees)
    /\ kPc' = "done"
    /\ UNCHANGED <<dryRun, force, staleRefs, entry, itemsToClean, prunedWorktrees>>
    /\ UNCHANGED <<dedupVars, copyVars, detectVars, sourceVars>>

CleanNext ==
    \/ CleanScan
    \/ CleanPrune
    \/ CleanExecute

SpecClean == CleanInit /\ [][CleanNext]_vars

----------------------------------------------------------------------------
(* Claims on what copyArtifacts returns, writes and reports *)

Reverse(s) == [k \in DOMAIN s |-> s[Len(s) + 1 - k]]

\* the elements of s at the places K, in the order of s
SubSeqAt(s, K) ==
    [i \in 1..Cardinality(K) |->
        s[CHOOSE k \in K : Cardinality({j \in K : j < k}) = i - 1]]

Returned == pc \in {"returned", "post", "done"}

\* C21: what copyArtifacts returns is the scheduled list cut down to the
\* items whose source existed, whose destination did not exist when their
\* turn came and whose copy did not fail, in the scheduled order: ascending,
\* without duplicates, each with its copy in the destination; and the
\* scheduled list is the same for the patterns in reverse order.
C21_CopiedList ==
    Returned =>
        /\ \A k \in DOMAIN toCopy :
              /\ status[k] \in {"copied", "skipped", "failed"}
              /\ status[k] = "copied" <=>
                    /\ Exists(src, toCopy[k])
                    /\ ~destExisted[k]
                    /\ status[k] /= "failed"
              /\ status[k] = "copied" => dest[toCopy[k]] = NewKind(src[toCopy[k]])
        /\ copied = SubSeqAt(toCopy, {k \in DOMAIN toCopy : status[k] = "copied"})
        /\ NoDuplicates(copied)
        /\ Ascending(copied)
        /\ toCopy = DeduplicatePaths(AllMatches(Reverse(detection.cache), src))

C21_Witness ==
    /\ pc = "returned"
    /\ detection.cache = << <<97, 45, 98>>, <<97>> >>
    /\ toCopy = << <<97>>, <<97, 45, 98>> >>
    /\ copied = toCopy

C23_AddChecksBeforeCreate ==
    (cmd = "add" /\ pc /= "start") =>
        LET rejected(code) == pc = "failed" /\ err.code = code
            sourceOk == args.from = "given" => repo.sourceFound
        IN  /\ ~args.positional => rejected("INVALID_ARGS")
            /\ (args.positional /\ ~sourceOk) => rejected("WORKTREE_NOT_FOUND")
            /\ (args.positional /\ sourceOk /\ ~repo.branchFree) =>
                  rejected("WORKTREE_EXISTS")
            /\ detection.kind = "error" => rejected("CONFIG_ERROR")
            /\ (\/ ~args.positional \/ ~sourceOk \/ ~repo.branchFree
                \/ detection.kind = "error") =>
                  /\ ~worktree
                  /\ toCopy = <<>> /\ copied = <<>>
                  /\ fsLog = {}
                  /\ dest = EmptyTree
                  /\ ~post.started

C23_Witness ==
    /\ cmd = "add" /\ pc = "failed"
    /\ args.positional /\ args.from = "given" /\ repo.sourceFound
    /\ ~repo.branchFree
    /\ err.code = "WORKTREE_EXISTS"
    /\ ~worktree

ItemCalls(n) == [k \in 1..n |-> <<k - 1, Len(toCopy), toCopy[k]>>]

C26_CloneFallsBack ==
    /\ \A k \in DOMAIN toCopy :
          LET p == toCopy[k] IN
          /\ status[k] = "failed" =>
                \/ <<"link", p>> \in fsLog
                \/ {e \in fsLog : e[2] = p} = {<<"mkdir", p>>}
          /\ (status[k] = "copied" /\ <<"link", p>> \notin fsLog) => <<"clone", p>> \in fsLog
    /\ (pc /= "copy" /\ (~opts.useReflink \/ platform /= "darwin")) =>
          \A e \in fsLog : e[1] \notin {"clone", "probe"}

C26_Witness ==
    /\ pc = "returned"
    /\ platform = "darwin" /\ opts.useReflink
    /\ \E k \in DOMAIN toCopy :
          /\ status[k] = "copied"
          /\ {<<"clone", toCopy[k]>>, <<"link", toCopy[k]>>} \subseteq fsLog

----------------------------------------------------------------------------
(* Claims on clean *)

\* C27: when clean has run with --dry-run, every artifact path holds what it
\* held when clean started, the repository has as many stale worktree
\* references as it had, and summary.cleaned is 0.
C27_DryRunChangesNothing ==
    (kPc = "done" /\ dryRun) =>
        /\ artifacts = entry.artifacts
        /\ staleRefs = entry.staleRefs
        /\ cleanOut.cleaned = 0

\* with --dry-run no artifact is removed and summary.cleaned is 0
DryRunRemovesNothing ==
    (kPc = "done" /\ dryRun) =>
        /\ artifacts = entry.artifacts
        /\ cleanOut.cleaned = 0

----------------------------------------------------------------------------
(* Claims on the results of detection *)

C29_UnknownLinesAreHarmless ==
    /\ tPc = "inferred" => gOut.status = "ok"
    /\ tPc = "out" => tOut.code /= "TypeError"

\* the detect files of the registry, in its order
AllDetectFiles == Flatten([k \in DOMAIN RECIPES |-> RECIPES[k].detect])

====
